---- MODULE Spec2Model ----
(***************************************************************************)
(* Model of ArabicSpellChecker (src/main.py): the normalizer, the phonetic *)
(* table, the matcher/ranker get_suggestions and the orchestration         *)
(* check_text, as a state machine over one checker instance.               *)
(*                                                                         *)
(* A character is its Unicode code point, a string is a sequence of code   *)
(* points.  Distances are kept in HALF units (0.5 is 1, 1 is 2) and a      *)
(* weighted score is an exact fraction num/den; the rounding of the        *)
(* program's floating-point arithmetic is the variable rounding.           *)
(***************************************************************************)
EXTENDS Integers, Sequences, FiniteSets, TLC

VARIABLES file, word_list, iter_order, rounding, call, misspelled, returned, passes, computed

vars == <<file, word_list, iter_order, rounding, call, misspelled, returned, passes, computed>>

-----------------------------------------------------------------------------
(* Bounds of the model *)

MaxLines == 2      \* lines of a generated word-list file
MaxTextLen == 3    \* characters of a generated input text
MaxWordLen == 2    \* characters of a generated query word of get_suggestions
MaxK == 2          \* max_suggestions ranges over -MaxK .. MaxK+1
MaxNormLen == 2    \* characters of a generated text of the normalizer runs
MaxScoreLen == 3   \* characters of a generated word of the scoring runs

-----------------------------------------------------------------------------
(* Code points the program names *)

DIACRITIC_LO == 1611        \* U+064B
DIACRITIC_HI == 1631        \* U+065F
SCRIPT_LO == 1536           \* U+0600
SCRIPT_HI == 1791           \* U+06FF
ALEF_MAKSURA == 1609        \* U+0649
YEH == 1610                 \* U+064A
TEH_MARBUTA == 1577         \* U+0629
HEH == 1607                 \* U+0647
ALEF_HAMZA_ABOVE == 1571    \* U+0623
ALEF_HAMZA_BELOW == 1573    \* U+0625
ALEF_MADDA == 1570          \* U+0622
ALEF == 1575                \* U+0627
DEFAULT_MAX_SUGGESTIONS == 3

Min(a, b) == IF a < b THEN a ELSE b
Max(a, b) == IF a > b THEN a ELSE b
Abs(a) == IF a < 0 THEN 0 - a ELSE a

-----------------------------------------------------------------------------
(* Python string primitives used by the program *)

\* str.isspace(): the characters str.split() and str.strip() treat as blank
PyWhitespace ==
    (9..13) \cup (28..32) \cup {133, 160, 5760} \cup (8192..8202)
        \cup {8232, 8233, 8239, 8287, 12288}

\* str.replace(old, new) for one-character old and new
replace(text, old, new) ==
    [i \in DOMAIN text |-> IF text[i] = old THEN new ELSE text[i]]

RECURSIVE lstrip(_)
lstrip(s) ==
    IF s # <<>> /\ Head(s) \in PyWhitespace THEN lstrip(Tail(s)) ELSE s

RECURSIVE rstrip(_)
rstrip(s) ==
    IF s # <<>> /\ s[Len(s)] \in PyWhitespace
    THEN rstrip(SubSeq(s, 1, Len(s) - 1))
    ELSE s

strip(s) == rstrip(lstrip(s))

\* str.split() with no argument: maximal runs of non-blank characters
RECURSIVE split_from(_, _, _)
split_from(text, i, cur) ==
    IF i > Len(text)
    THEN IF cur = <<>> THEN <<>> ELSE <<cur>>
    ELSE IF text[i] \in PyWhitespace
         THEN IF cur = <<>>
              THEN split_from(text, i + 1, <<>>)
              ELSE <<cur>> \o split_from(text, i + 1, <<>>)
         ELSE split_from(text, i + 1, Append(cur, text[i]))

split(text) == split_from(text, 1, <<>>)

\* mutant: the slice keeps one entry more
slice_to_inclusive(s, k) ==
    IF k >= 0
    THEN SubSeq(s, 1, Min(k + 1, Len(s)))
    ELSE SubSeq(s, 1, Max(0, Len(s) + k + 1))

\* list[:k]
slice_to(s, k) ==
    IF k >= 0
    THEN SubSeq(s, 1, Min(k, Len(s)))
    ELSE SubSeq(s, 1, Max(0, Len(s) + k))

-----------------------------------------------------------------------------
(* Normalizer *)

in_diacritic_range(c) == DIACRITIC_LO <= c /\ c <= DIACRITIC_HI

\* mutant: only the first diacritic is removed (re.sub with count=1)
remove_first_diacritic(text) ==
    IF \E i \in DOMAIN text : in_diacritic_range(text[i])
    THEN LET first == CHOOSE i \in DOMAIN text :
                          /\ in_diacritic_range(text[i])
                          /\ \A j \in 1..(i - 1) : ~in_diacritic_range(text[j])
         IN  SubSeq(text, 1, first - 1) \o SubSeq(text, first + 1, Len(text))
    ELSE text

remove_diacritics(text) ==
    SelectSeq(text, LAMBDA c : ~in_diacritic_range(c))

normalize_text(text) ==
    LET t1 == replace(text, ALEF_MAKSURA, YEH)
        t2 == replace(t1, TEH_MARBUTA, HEH)
        t3 == replace(t2, ALEF_HAMZA_ABOVE, ALEF)
        t4 == replace(t3, ALEF_HAMZA_BELOW, ALEF)
    IN  replace(t4, ALEF_MADDA, ALEF)

\* the preprocessing of check_text: remove_diacritics, then normalize_text
normalize(text) == normalize_text(remove_diacritics(text))

in_script_range(c) == SCRIPT_LO <= c /\ c <= SCRIPT_HI

\* re.search over the range U+0600..U+06FF
has_script_char(word) == \E i \in DOMAIN word : in_script_range(word[i])

\* re.sub deleting every character outside U+0600..U+06FF
clean(word) == SelectSeq(word, in_script_range)

-----------------------------------------------------------------------------
(* Construction *)

\* a word-list file: found or not, and its lines (the result is a set, so
\* the order and the multiplicity of the lines do not reach the checker).
\* Only FileNotFoundError is caught: any other failure of open or read
\* leaves the constructor by an exception, and there is no checker then.
load_word_list(f) ==
    IF f.found
    THEN {strip(line) : line \in {l \in f.lines : strip(l) # <<>>}}
    ELSE {}

ArabicSpellChecker_init(f) ==
    {normalize_text(word) : word \in load_word_list(f)}

-----------------------------------------------------------------------------
(* Phonetic model *)

get_character_groups ==
    << {1575, 1571, 1573, 1570},
       {1610, 1609},
       {1607, 1577},
       {1608, 1572},
       {1603, 1711},
       {1578, 1591},
       {1587, 1589},
       {1583, 1590},
       {1581, 1607, 1582},
       {1586, 1584, 1592} >>

\* mutant: only the first group that holds char1 is looked at
calculate_phonetic_distance_first_group(char1, char2) ==
    IF char1 = char2
    THEN 0
    ELSE IF \E g \in DOMAIN get_character_groups :
                char1 \in get_character_groups[g]
         THEN LET first == CHOOSE g \in DOMAIN get_character_groups :
                               /\ char1 \in get_character_groups[g]
                               /\ \A h \in 1..(g - 1) :
                                      char1 \notin get_character_groups[h]
              IN  IF char2 \in get_character_groups[first] THEN 1 ELSE 2
         ELSE 2

\* in HALF units: 0 is 0, 1 is 0.5, 2 is 1
calculate_phonetic_distance(char1, char2) ==
    IF char1 = char2
    THEN 0
    ELSE IF \E g \in DOMAIN get_character_groups :
                char1 \in get_character_groups[g]
                    /\ char2 \in get_character_groups[g]
         THEN 1
         ELSE 2

-----------------------------------------------------------------------------
(* Matcher / ranker *)

\* one row of the edit-distance table: the row of word1[i] from the row
\* of word1[i-1]; acc holds the columns 0 .. Len(acc)-1 already computed
RECURSIVE lev_row(_, _, _, _)
lev_row(prev, c, word2, acc) ==
    IF Len(acc) = Len(word2) + 1
    THEN acc
    ELSE LET j == Len(acc)
             cost == IF c = word2[j] THEN 0 ELSE 1
             best == Min(Min(prev[j + 1] + 1, acc[j] + 1), prev[j] + cost)
         IN  lev_row(prev, c, word2, Append(acc, best))

RECURSIVE lev_rows(_, _, _, _)
lev_rows(word1, word2, i, prev) ==
    IF i > Len(word1)
    THEN prev
    ELSE lev_rows(word1, word2, i + 1,
                  lev_row(prev, word1[i], word2, <<prev[1] + 1>>))

\* Levenshtein.distance: insertions, deletions and substitutions cost 1
Levenshtein_distance(word1, word2) ==
    lev_rows(word1, word2, 1, [j \in 1..(Len(word2) + 1) |-> j - 1])[Len(word2) + 1]

RECURSIVE phonetic_adjustment(_, _, _)
phonetic_adjustment(word1, word2, i) ==
    IF i > Min(Len(word1), Len(word2))
    THEN 0
    ELSE (IF word1[i] # word2[i]
          THEN calculate_phonetic_distance(word1[i], word2[i]) - 2
          ELSE 0)
         + phonetic_adjustment(word1, word2, i + 1)

\* in HALF units
custom_distance(word1, word2) ==
    Max(0, 2 * Levenshtein_distance(word1, word2)
               + phonetic_adjustment(word1, word2, 1))

\* mutant: the threshold does not scale with the length of the word
length_gate_fixed_threshold(word, dict_word) ==
    Abs(Len(word) - Len(dict_word)) > 3

length_gate_skips(word, dict_word) ==
    Abs(Len(word) - Len(dict_word)) > Min(3, (Len(word) \div 2) + 1)

RECURSIVE prefix_length(_, _, _)
prefix_length(word, dict_word, i) ==
    IF i <= Min(Len(word), Len(dict_word)) /\ word[i] = dict_word[i]
    THEN 1 + prefix_length(word, dict_word, i + 1)
    ELSE 0

RECURSIVE suffix_length(_, _, _)
suffix_length(word, dict_word, i) ==
    IF i <= Min(Len(word), Len(dict_word))
           /\ word[Len(word) + 1 - i] = dict_word[Len(dict_word) + 1 - i]
    THEN 1 + suffix_length(word, dict_word, i + 1)
    ELSE 0

\* mutant: the bonuses are divided by the longer length, not the query's
weighted_score_by_max_len(word, dict_word) ==
    LET word_len == Len(word)
        dict_word_len == Len(dict_word)
        max_len == Max(word_len, dict_word_len)
        wl == Max(word_len, 1)
        ml == IF max_len > 0 THEN max_len ELSE 1
        adjusted == custom_distance(word, dict_word)
        pre == prefix_length(word, dict_word, 1)
        suf == suffix_length(word, dict_word, 1)
        normalized_distance == 5 * wl * adjusted
        prefix_bonus == IF pre > 1 THEN 4 * pre * wl ELSE 0
        suffix_bonus == IF suf > 1 THEN 2 * suf * wl ELSE 0
        length_ratio ==
            IF max_len > 0 THEN 2 * Min(word_len, dict_word_len) * wl ELSE 0
        pattern == IF pre >= 3 /\ suf >= 1 THEN 3 * wl * ml ELSE 0
    IN  [num |-> normalized_distance - prefix_bonus - suffix_bonus
                    - length_ratio - pattern,
         den |-> 10 * wl * ml]

\* the weighted score as the exact fraction num/den, den = 10 * wl * ml
\* (the program computes it in binary floating point: see computed_score)
weighted_score(word, dict_word) ==
    LET word_len == Len(word)
        dict_word_len == Len(dict_word)
        max_len == Max(word_len, dict_word_len)
        wl == Max(word_len, 1)
        ml == IF max_len > 0 THEN max_len ELSE 1
        adjusted == custom_distance(word, dict_word)
        pre == prefix_length(word, dict_word, 1)
        suf == suffix_length(word, dict_word, 1)
        normalized_distance == 5 * wl * adjusted
        prefix_bonus == IF pre > 1 THEN 4 * pre * ml ELSE 0
        suffix_bonus == IF suf > 1 THEN 2 * suf * ml ELSE 0
        length_ratio ==
            IF max_len > 0 THEN 2 * Min(word_len, dict_word_len) * wl ELSE 0
        pattern == IF pre >= 3 /\ suf >= 1 THEN 3 * wl * ml ELSE 0
    IN  [num |-> normalized_distance - prefix_bonus - suffix_bonus
                    - length_ratio - pattern,
         den |-> 10 * wl * ml]

score_le(a, b) == a.num * b.den <= b.num * a.den
score_lt(a, b) == a.num * b.den < b.num * a.den
score_eq(a, b) == a.num * b.den = b.num * a.den

\* the operands the floating-point computation of the score is made of:
\* two candidates with the same operands get the same float
signature(word, dict_word) ==
    LET pre == prefix_length(word, dict_word, 1)
        suf == suffix_length(word, dict_word, 1)
    IN  << Len(word), custom_distance(word, dict_word), Len(dict_word),
           IF pre > 1 THEN pre ELSE 0, IF suf > 1 THEN suf ELSE 0,
           pre >= 3 /\ suf >= 1 >>

\* the float the program computes: the exact score, and the rank of its
\* rounding error among the floats of the same exact score.  Two exact
\* scores that differ are further apart than any rounding error; two that
\* are equal may round apart, as -0.12 and -0.11999999999999997 do for the
\* query "kaf kaf kaf" and the candidates "kaf kaf kaf kaf teh" and
\* "kaf kaf teh kaf kaf"
computed_score(word, dict_word) ==
    LET exact == weighted_score(word, dict_word)
        sig == signature(word, dict_word)
    IN  [num |-> exact.num, den |-> exact.den,
         ulp |-> IF sig \in DOMAIN rounding THEN rounding[sig] ELSE 0]

\* the comparison of two floats
key_lt(a, b) == score_lt(a, b) \/ (score_eq(a, b) /\ a.ulp < b.ulp)
key_le(a, b) == score_lt(a, b) \/ (score_eq(a, b) /\ a.ulp <= b.ulp)
key_eq(a, b) == score_eq(a, b) /\ a.ulp = b.ulp

\* the loop over self.word_list, in the set's iteration order
RECURSIVE collect_suggestions(_, _, _)
collect_suggestions(word, order, i) ==
    IF i > Len(order)
    THEN <<>>
    ELSE (IF length_gate_skips(word, order[i])
          THEN <<>>
          ELSE << [word |-> order[i],
                   score |-> computed_score(word, order[i])] >>)
         \o collect_suggestions(word, order, i + 1)

\* mutant: the sort is not stable, an entry goes before its equals
insert_sorted_unstable(sorted, e) ==
    LET n == Cardinality({i \in DOMAIN sorted : key_lt(sorted[i].score, e.score)})
    IN  SubSeq(sorted, 1, n) \o <<e>> \o SubSeq(sorted, n + 1, Len(sorted))

\* mutant: the sort is descending
insert_sorted_descending(sorted, e) ==
    LET n == Cardinality({i \in DOMAIN sorted : key_le(e.score, sorted[i].score)})
    IN  SubSeq(sorted, 1, n) \o <<e>> \o SubSeq(sorted, n + 1, Len(sorted))

\* list.sort(key=score) is stable: an entry goes after the entries that
\* precede it in the list and score no more than it
insert_sorted(sorted, e) ==
    LET n == Cardinality({i \in DOMAIN sorted : key_le(sorted[i].score, e.score)})
    IN  SubSeq(sorted, 1, n) \o <<e>> \o SubSeq(sorted, n + 1, Len(sorted))

RECURSIVE sort_by_score(_, _)
sort_by_score(suggestions, n) ==
    IF n = 0
    THEN <<>>
    ELSE insert_sorted(sort_by_score(suggestions, n - 1), suggestions[n])

get_suggestions(word, max_suggestions) ==
    LET suggestions == collect_suggestions(word, iter_order, 1)
        ranked == sort_by_score(suggestions, Len(suggestions))
        top == slice_to(ranked, max_suggestions)
    IN  [i \in DOMAIN top |-> top[i].word]

-----------------------------------------------------------------------------
(* Checker *)

\* mutant: the entry is keyed by the cleaned word
check_word_keyed_by_clean(word, acc) ==
    LET clean_word == clean(word)
    IN  IF word = <<>> \/ ~has_script_char(word)
        THEN acc
        ELSE IF clean_word # <<>> /\ clean_word \notin word_list
             THEN (clean_word :> get_suggestions(clean_word,
                                     DEFAULT_MAX_SUGGESTIONS)) @@ acc
             ELSE acc

\* mutant: membership is tested on the token, punctuation included
check_word_raw_membership(word, acc) ==
    LET clean_word == clean(word)
    IN  IF word = <<>> \/ ~has_script_char(word)
        THEN acc
        ELSE IF clean_word # <<>> /\ word \notin word_list
             THEN (word :> get_suggestions(clean_word,
                               DEFAULT_MAX_SUGGESTIONS)) @@ acc
             ELSE acc

\* mutant: the script-character guard and the empty-word test are gone
check_word_any_token(word, acc) ==
    LET clean_word == clean(word)
    IN  IF word = <<>>
        THEN acc
        ELSE IF clean_word \notin word_list
             THEN (word :> get_suggestions(clean_word,
                               DEFAULT_MAX_SUGGESTIONS)) @@ acc
             ELSE acc

\* the body of the loop of check_text: one token of the normalized text,
\* acc the dictionary built so far
check_word(word, acc) ==
    LET clean_word == clean(word)
    IN  IF word = <<>> \/ ~has_script_char(word)
        THEN acc
        ELSE IF clean_word # <<>> /\ clean_word \notin word_list
             THEN (word :> get_suggestions(clean_word,
                               DEFAULT_MAX_SUGGESTIONS)) @@ acc
             ELSE acc

RECURSIVE check_words(_, _, _)
check_words(words, i, acc) ==
    IF i > Len(words)
    THEN acc
    ELSE check_words(words, i + 1, check_word(words[i], acc))

\* mutant: an empty vocabulary ends the check at once
check_text_result_requires_vocabulary(text) ==
    IF word_list = {}
    THEN <<>>
    ELSE check_words(split(normalize_text(remove_diacritics(text))), 1, <<>>)

check_text_result(text) ==
    check_words(split(normalize_text(remove_diacritics(text))), 1, <<>>)

-----------------------------------------------------------------------------
(* Inputs of the bounded runs *)

SeqsUpTo(A, n) == UNION {[1..m -> A] : m \in 0..n}

Range(s) == {s[i] : i \in DOMAIN s}

\* kaf, teh marbuta, fatha (a diacritic), '!' and the space
TextAlphabet == {1603, 1577, 1614, 33, 32}

\* lines of a word list: "kaf", "kaf teh-marbuta", "kaf fatha",
\* " kaf kaf " with blanks around it, and a blank line
LinePool ==
    { <<1603>>, <<1603, 1577>>, <<1603, 1614>>, <<32, 1603, 1603, 32>>, <<32>> }

\* the vocabulary and the query of the concrete scenario of the specification
ScenarioKitab == <<1603, 1578, 1575, 1576>>
ScenarioLines ==
    { ScenarioKitab, <<1603, 1578, 1576>>, <<1605, 1603, 1578, 1576, 1577>> }
ScenarioQuery == <<1603, 1578, 1575, 1598>>

\* three lines of the pool: for the query "heh" the first scores lowest and
\* the other two score the same
TieLines == { <<1603>>, <<1603, 1614>>, <<32, 1603, 1603, 32>> }

\* two lines whose scores for the query "kaf kaf kaf" are equal as
\* fractions and are computed from different operands
RoundingLines ==
    { <<1603, 1603, 1603, 1603, 1578>>, <<1603, 1603, 1578, 1603, 1603>> }

Files ==
    {[found |-> TRUE, lines |-> L] :
        L \in {S \in SUBSET LinePool : Cardinality(S) <= MaxLines}}
    \cup {[found |-> TRUE, lines |-> ScenarioLines]}
    \cup {[found |-> TRUE, lines |-> TieLines]}
    \cup {[found |-> TRUE, lines |-> RoundingLines]}
    \cup {[found |-> FALSE, lines |-> {}]}

\* the orders in which iterating a set may give its elements
Orders(S) ==
    {o \in [1..Cardinality(S) -> S] : \A i, j \in DOMAIN o : o[i] = o[j] => i = j}

\* longer texts: "kaf fatha ! space teh-marbuta !", "! kaf fatha kaf !",
\* "kaf tab kaf teh-marbuta newline"
SampleTexts ==
    { <<1603, 1614, 33, 32, 1577, 33>>,
      <<33, 1603, 1614, 1603, 33>>,
      <<1603, 9, 1603, 1577, 10>> }

Texts ==
    SeqsUpTo(TextAlphabet, MaxTextLen) \cup SampleTexts
        \cup ScenarioLines \cup {ScenarioQuery}

QueryWords ==
    SeqsUpTo({1603, 1607}, MaxWordLen) \cup {ScenarioQuery, <<1603, 1603, 1603>>}
        \cup {normalize_text(w) : w \in ScenarioLines}

Ks == (0 - MaxK)..(MaxK + 1)

NoCall == [name |-> "none", text |-> <<>>, k |-> 0]

\* the words the runs can pass to get_suggestions
AllQueries ==
    QueryWords
        \cup UNION {{clean(t) : t \in Range(split(normalize(text)))} : text \in Texts}

\* the operands whose rounding can decide an order: those of a candidate
\* whose exact score equals that of another candidate of other operands
TieSignatures(vocabulary) ==
    {signature(p[1], p[2]) :
        p \in {q \in AllQueries \X vocabulary :
                 /\ ~length_gate_skips(q[1], q[2])
                 /\ \E d \in vocabulary :
                        /\ ~length_gate_skips(q[1], d)
                        /\ signature(q[1], d) # signature(q[1], q[2])
                        /\ score_eq(weighted_score(q[1], d),
                                    weighted_score(q[1], q[2]))}}

\* the rounding of the floats is a fixed function of the operands
Roundings(vocabulary) ==
    [TieSignatures(vocabulary) -> 0..(Cardinality(TieSignatures(vocabulary)) - 1)]

-----------------------------------------------------------------------------
(* The checker instance *)

\* the state once ArabicSpellChecker(word_list_path) has returned
Init ==
    /\ file \in Files
    /\ word_list = ArabicSpellChecker_init(file)
    /\ iter_order \in Orders(word_list)
    /\ rounding \in Roundings(word_list)
    /\ call = NoCall
    /\ misspelled = <<>>
    /\ returned = <<>>
    /\ passes = <<>>
    /\ computed = <<>>

\* mutant: the checker learns the words it flags
check_text_learning(text) ==
    /\ call = NoCall
    /\ call' = [name |-> "check_text", text |-> text, k |-> 0]
    /\ misspelled' = check_text_result(text)
    /\ returned' = <<>>
    /\ word_list' = word_list \cup {clean(w) : w \in DOMAIN check_text_result(text)}
    /\ UNCHANGED <<file, iter_order, rounding, passes, computed>>

check_text(text) ==
    /\ call = NoCall
    /\ call' = [name |-> "check_text", text |-> text, k |-> 0]
    /\ misspelled' = check_text_result(text)
    /\ returned' = <<>>
    /\ UNCHANGED <<file, word_list, iter_order, rounding, passes, computed>>

suggest(word, max_suggestions) ==
    /\ call = NoCall
    /\ call' = [name |-> "get_suggestions", text |-> word, k |-> max_suggestions]
    /\ returned' = get_suggestions(word, max_suggestions)
    /\ misspelled' = <<>>
    /\ UNCHANGED <<file, word_list, iter_order, rounding, passes, computed>>

CheckText == \E text \in Texts : check_text(text)

Suggest == \E word \in QueryWords : \E k \in Ks : suggest(word, k)

\* the caller has consumed the result of the call; the next call may start
Return ==
    /\ call.name \in {"check_text", "get_suggestions"}
    /\ call' = NoCall
    /\ misspelled' = <<>>
    /\ returned' = <<>>
    /\ UNCHANGED <<file, word_list, iter_order, rounding, passes, computed>>

Next == CheckText \/ Suggest \/ Return

Spec == Init /\ [][Next]_vars

-----------------------------------------------------------------------------
(* The normalizer on its own: a text is normalized, then normalized again *)

\* the five variants and their three targets, the first and the last
\* diacritic, the code point after the diacritics, kaf and '!'
NormAlphabet ==
    {1609, 1610, 1577, 1607, 1571, 1573, 1570, 1575, 1611, 1631, 1632, 1603, 33}

NormTexts == SeqsUpTo(NormAlphabet, MaxNormLen)

InitNormalizer ==
    /\ file = [found |-> FALSE, lines |-> {}]
    /\ word_list = ArabicSpellChecker_init(file)
    /\ iter_order = <<>>
    /\ rounding = <<>>
    /\ call = NoCall
    /\ misspelled = <<>>
    /\ returned = <<>>
    /\ passes = <<>>
    /\ computed = <<>>

\* the preprocessing of check_text applied to a text
Normalize(text) ==
    /\ call = NoCall
    /\ call' = [name |-> "normalize", text |-> text, k |-> 0]
    /\ passes' = <<normalize_text(remove_diacritics(text))>>
    /\ UNCHANGED <<file, word_list, iter_order, rounding, misspelled, returned, computed>>

\* the same preprocessing applied to its own result
Renormalize ==
    /\ call.name = "normalize"
    /\ Len(passes) = 1
    /\ call' = [call EXCEPT !.name = "renormalize"]
    /\ passes' = Append(passes, normalize_text(remove_diacritics(passes[1])))
    /\ UNCHANGED <<file, word_list, iter_order, rounding, misspelled, returned, computed>>

NextNormalizer == (\E text \in NormTexts : Normalize(text)) \/ Renormalize

SpecNormalizer == InitNormalizer /\ [][NextNormalizer]_vars

-----------------------------------------------------------------------------
(* Properties *)

RawTokens(text) == Range(split(text))

IsCheck == call.name = "check_text"
IsSuggest == call.name = "get_suggestions"

IsScriptWord(w) == w # <<>> /\ \A i \in DOMAIN w : in_script_range(w[i])

\* C1: a checker built from the vocabulary {w}, w a word of script
\* characters, stores w in the canonical form check gives the query w
\* (diacritics removed, then the substitutions), and check(w) is empty.
C1_VocabularyQuerySymmetry ==
    (IsCheck /\ file.found /\ file.lines = {call.text} /\ IsScriptWord(call.text))
        => /\ word_list = {normalize(call.text)}
           /\ DOMAIN misspelled = {}

C3_KnownWordOmitted ==
    IsCheck =>
        /\ \A t \in RawTokens(call.text) :
               clean(normalize(t)) \in word_list
                   => t \notin DOMAIN misspelled
                          /\ normalize(t) \notin DOMAIN misspelled
        /\ \A key \in DOMAIN misspelled :
               /\ clean(normalize(key)) # <<>>
               /\ clean(normalize(key)) \notin word_list

C3_Witness ==
    /\ IsCheck
    /\ \E t \in RawTokens(call.text) :
           /\ clean(normalize(t)) \in word_list
           /\ t \notin word_list
           /\ normalize(t) \notin word_list
    /\ DOMAIN misspelled # {}

\* C4 as stated: for every integer k the list suggest returns has at most k
\* entries and at most as many as the vocabulary has words.
C4_BoundedForEveryK ==
    IsSuggest =>
        /\ Len(returned) <= call.k
        /\ Len(returned) <= Cardinality(word_list)

\* C4 as amended: the list suggest returns never has more entries than the
\* vocabulary has words, and for k >= 0 it has at most k entries.
C4_BoundedOutput ==
    IsSuggest =>
        /\ Len(returned) <= Cardinality(word_list)
        /\ call.k >= 0 => Len(returned) <= call.k

C4_Witness ==
    /\ IsSuggest
    /\ call.k >= 1
    /\ Len(returned) = call.k
    /\ Cardinality({d \in word_list :
           Abs(Len(call.text) - Len(d)) <= Min(3, (Len(call.text) \div 2) + 1)})
         > call.k

\* the gate of the claim, written from its statement
GateFails(word, d) ==
    Abs(Len(word) - Len(d)) > Min(3, (Len(word) \div 2) + 1)

\* C5: no word whose length differs from the query's by more than
\* min(3, len(word) div 2 + 1) is in the list suggest returns, and the list
\* is empty when every vocabulary word fails that gate.
C5_LengthGate ==
    IsSuggest =>
        /\ \A i \in DOMAIN returned : ~GateFails(call.text, returned[i])
        /\ (\A d \in word_list : GateFails(call.text, d)) => returned = <<>>

C5_Witness ==
    /\ IsSuggest
    /\ returned # <<>>
    /\ \E d \in word_list : GateFails(call.text, d)
    /\ Len(returned) < call.k

\* C6: normalizing a normalized text changes nothing.
C6_NormalizeIdempotent ==
    Len(passes) = 2 => passes[2] = passes[1]

C6_Witness ==
    /\ Len(passes) = 2
    /\ passes[1] # call.text
    /\ \E i \in DOMAIN call.text : in_diacritic_range(call.text[i])
    /\ \E i \in DOMAIN call.text : call.text[i] = TEH_MARBUTA

IsScenario ==
    /\ IsCheck
    /\ file.found
    /\ file.lines = ScenarioLines
    /\ call.text = ScenarioQuery

\* C7: with the vocabulary of the scenario, check of the scenario's query
\* returns one key, whose list starts with the scenario's first word, the
\* candidate with the strictly lowest weighted score.
C7_ScenarioRanksKitabFirst ==
    IsScenario =>
        /\ DOMAIN misspelled = {ScenarioQuery}
        /\ Len(misspelled[ScenarioQuery]) >= 1
        /\ misspelled[ScenarioQuery][1] = ScenarioKitab
        /\ \A d \in word_list \ {ScenarioKitab} :
               score_lt(weighted_score(ScenarioQuery, ScenarioKitab),
                        weighted_score(ScenarioQuery, d))

C7_Witness ==
    /\ IsScenario
    /\ iter_order[1] # ScenarioKitab
    /\ Len(misspelled[ScenarioQuery]) = 3

C9_NonScriptSkipped ==
    (IsCheck /\ \A t \in RawTokens(call.text) : ~has_script_char(t))
        => DOMAIN misspelled = {}

C9_Witness ==
    /\ IsCheck
    /\ call.text = <<33, 33, 33>>
    /\ word_list # {}

\* C10: no call of check or suggest changes the stored vocabulary or the
\* order in which it is iterated.
C10_VocabularyImmutable ==
    [][word_list' = word_list /\ iter_order' = iter_order]_vars

C10_Witness ==
    /\ IsCheck
    /\ word_list # {}
    /\ DOMAIN misspelled # {}
    /\ word_list = ArabicSpellChecker_init(file)

-----------------------------------------------------------------------------
(* The weighted score on its own: a pair of words scored in both directions *)

\* words of kaf and teh, and two words of the scenario
ScoreWords ==
    SeqsUpTo({1603, 1578}, MaxScoreLen)
        \cup {ScenarioKitab, <<1603, 1578, 1576>>}

\* the score get_suggestions gives the candidate b for the query a, and
\* the score it gives the candidate a for the query b
Score(a, b) ==
    /\ call = NoCall
    /\ call' = [name |-> "weighted_score", text |-> <<a, b>>, k |-> 0]
    /\ computed' = <<weighted_score(a, b), weighted_score(b, a)>>
    /\ UNCHANGED <<file, word_list, iter_order, rounding, misspelled, returned, passes>>

NextScore == \E a \in ScoreWords : \E b \in ScoreWords : Score(a, b)

SpecScore == InitNormalizer /\ [][NextScore]_vars

IsScore == call.name = "weighted_score"

\* the length of the longest common leading run, from its definition
CommonPrefix(a, b) ==
    Cardinality({n \in 1..Min(Len(a), Len(b)) : \A i \in 1..n : a[i] = b[i]})

CommonSuffix(a, b) ==
    Cardinality({n \in 1..Min(Len(a), Len(b)) :
        \A i \in 1..n : a[Len(a) + 1 - i] = b[Len(b) + 1 - i]})

\* C11: the weighted score is not symmetric: the score of b for the query a
\* and the score of a for the query b differ exactly when a and b differ in
\* length and share a leading or a trailing run of more than one character,
\* the bonuses being divided by the length of the query alone.
C11_ScoreNotSymmetric ==
    IsScore =>
        LET a == call.text[1]
            b == call.text[2]
        IN  ~score_eq(computed[1], computed[2])
                <=> /\ Len(a) # Len(b)
                    /\ CommonPrefix(a, b) > 1 \/ CommonSuffix(a, b) > 1

C11_Witness ==
    /\ IsScore
    /\ call.text[1] # <<>>
    /\ call.text[2] # <<>>
    /\ ~GateFails(call.text[1], call.text[2])
    /\ ~GateFails(call.text[2], call.text[1])
    /\ ~score_eq(computed[1], computed[2])

\* the candidates of the vocabulary that pass the gate for the query
Survivors == {d \in word_list : ~GateFails(call.text, d)}

\* the place of a vocabulary word in the iteration of the set
Position(d) == CHOOSE i \in DOMAIN iter_order : iter_order[i] = d

\* the score the program computed for the candidate
ScoreOf(d) == computed_score(call.text, d)

\* x is ranked before y: a lower score, or the same score and an earlier
\* place in the iteration of the vocabulary
RankedBefore(x, y) ==
    \/ key_lt(ScoreOf(x), ScoreOf(y))
    \/ key_eq(ScoreOf(x), ScoreOf(y)) /\ Position(x) < Position(y)

\* C12: for k >= 0 the list suggest returns is the first k of the candidates
\* that pass the gate, sorted by ascending weighted score: the scores along
\* the list do not decrease, no candidate left out scores lower than one
\* returned, and candidates of equal score keep the order in which the
\* vocabulary is iterated.
C12_RankingOrder ==
    (IsSuggest /\ call.k >= 0) =>
        /\ Len(returned) = Min(call.k, Cardinality(Survivors))
        /\ Range(returned) \subseteq Survivors
        /\ \A i, j \in DOMAIN returned :
               i < j => RankedBefore(returned[i], returned[j])
        /\ \A d \in Survivors \ Range(returned) :
               \A i \in DOMAIN returned : RankedBefore(returned[i], d)

C12_Witness ==
    /\ IsSuggest
    /\ call.k >= 1
    /\ Len(returned) = call.k
    /\ Position(returned[1]) > 1
    /\ \E d \in Survivors \ Range(returned) :
           key_eq(ScoreOf(d), ScoreOf(returned[Len(returned)]))
    /\ \E i \in DOMAIN returned :
           \E d \in Survivors : Position(d) < Position(returned[i])
                                    /\ key_lt(ScoreOf(returned[i]), ScoreOf(d))

-----------------------------------------------------------------------------
(* The phonetic distance on its own: a pair of characters, both ways *)

\* the characters of the ten groups, and beh, '!' and 'a', which are in none
PhoneticChars ==
    UNION {get_character_groups[g] : g \in DOMAIN get_character_groups}
        \cup {1576, 33, 97}

Phonetic(a, b) ==
    /\ call = NoCall
    /\ call' = [name |-> "calculate_phonetic_distance", text |-> <<a, b>>, k |-> 0]
    /\ computed' = << calculate_phonetic_distance(a, b),
                      calculate_phonetic_distance(b, a) >>
    /\ UNCHANGED <<file, word_list, iter_order, rounding, misspelled, returned, passes>>

NextPhonetic == \E a \in PhoneticChars : \E b \in PhoneticChars : Phonetic(a, b)

SpecPhonetic == InitNormalizer /\ [][NextPhonetic]_vars

IsPhonetic == call.name = "calculate_phonetic_distance"

\* the number of groups of the list that hold both characters
SharedGroups(a, b) ==
    Cardinality({g \in DOMAIN get_character_groups :
        {a, b} \subseteq get_character_groups[g]})

\* C13: the phonetic distance of a and b is 0 when a = b, 0.5 (one half
\* unit) when a # b and some group holds both, however many do, and 1 (two
\* half units) otherwise, also when a or b is in no group; it is the same
\* for b and a.
C13_PhoneticDistance ==
    IsPhonetic =>
        LET a == call.text[1]
            b == call.text[2]
        IN  /\ a = b => computed[1] = 0
            /\ (a # b /\ SharedGroups(a, b) >= 1) => computed[1] = 1
            /\ (a # b /\ SharedGroups(a, b) = 0) => computed[1] = 2
            /\ computed[1] \in {0, 1, 2}
            /\ computed[2] = computed[1]

\* heh is in the third and in the ninth group: hah shares only the ninth
C13_Witness ==
    /\ IsPhonetic
    /\ call.text = <<1607, 1581>>
    /\ computed = <<1, 1>>

====
